---- MODULE Spec2Model ----
(***************************************************************************)
(* Save-game directory synchronisation of the gamebryo-savegames extension *)
(* (index.ts, util/refreshSavegames.ts, util/gameSupport.ts).              *)
(*                                                                         *)
(* Every 'profile-did-change' event starts one promise chain ("activation")*)
(* updateSaveSettings -> updateSaves -> attach watch.  Chains, directory   *)
(* scans, debounce timers and watch events interleave at the asynchronous  *)
(* suspension points of the code (ini read, ensureDir, readdir, each       *)
(* decode, the 500 ms retry delay, the 1000 ms debounce wait).             *)
(***************************************************************************)
EXTENDS Integers, Sequences, FiniteSets, TLC

(* ------------------------------ bounds --------------------------------- *)
\* number of profile activations (promise chains) that pass the handler's guard
MaxActs == 2
\* granularity of the model's clock, in milliseconds
TickMS == 500
\* cap of the per-debouncer event counter kept for the coalescing property
MaxBurst == 2
\* number of files the file system holds at most, over all save directories
MaxFiles == 2

(* ------------------------- program constants --------------------------- *)
\* index.ts: new util.Debouncer(..., 1000)
DebounceMS == 1000
\* refreshSavegames.ts: util.delayed(500)
RetryDelayMS == 500

(* ------------------------------ profiles ------------------------------- *)
\* state.persistent.profiles: p1 keeps its own saves, p2 uses its game's
\* global save directory, p3 belongs to a game outside the support table.
\* "px" is a profile id that is not in the persisted profiles.
Profiles ==
  [ p1 |-> [gameId |-> "skyrim",    local_saves |-> TRUE],
    p2 |-> [gameId |-> "fallout4",  local_saves |-> FALSE],
    p3 |-> [gameId |-> "morrowind", local_saves |-> FALSE] ]

ProfileIds == {"p1", "p2", "p3", "px"}

\* keys of the gameSupport table
gameSupport ==
  {"skyrim", "skyrimse", "skyrimvr", "fallout3", "fallout4", "fallout4vr",
   "falloutnv", "oblivion"}

gameSupported(gameMode) == gameMode \in gameSupport

\* path.join(documents, 'My Games', gameSupport[gameMode].mygamesPath), as a
\* sequence of path components
mygamesPath(gameMode) == <<"My Games", gameMode>>

\* General.SLocalSavePath as updateSaveSettings computes it
SLocalSavePath(profileId) ==
  IF Profiles[profileId].local_saves THEN <<"Saves", profileId>> ELSE <<"Saves">>

\* readPath of updateSaveSettings: mygamesPath + sep + SLocalSavePath
readPath(profileId) ==
  mygamesPath(Profiles[profileId].gameId) \o SLocalSavePath(profileId)

\* the profiles the handler lets through
Supported ==
  {p \in DOMAIN Profiles : gameSupported(Profiles[p].gameId)}

Dirs == {readPath(p) : p \in Supported}

(* ---------------------------- file names ------------------------------- *)
\* directory entries, as sequences of characters
NameEss == <<"a", ".", "e", "s", "s">>
NameFos == <<"b", ".", "F", "O", "S">>
NameTxt == <<"n", ".", "t", "x", "t">>
\* a dot file: path.extname gives it no extension
NameDot == <<".", "e", "s", "s">>
Names == {NameEss, NameFos, NameTxt, NameDot}

\* String.prototype.toLowerCase on the characters that occur in Names
LowerChar(c) ==
  CASE c = "E" -> "e" [] c = "S" -> "s" [] c = "F" -> "f" [] c = "O" -> "o"
    [] c = "T" -> "t" [] c = "X" -> "x" [] c = "A" -> "a" [] c = "B" -> "b"
    [] c = "N" -> "n" [] OTHER -> c

toLowerCase(s) == [i \in 1..Len(s) |-> LowerChar(s[i])]

\* path.extname: from the last '.' to the end; empty when there is no '.' or
\* the only '.' is the first character
LastDot(s) ==
  IF \E i \in 1..Len(s) : s[i] = "."
  THEN CHOOSE i \in 1..Len(s) : s[i] = "." /\ \A j \in (i+1)..Len(s) : s[j] # "."
  ELSE 0

extname(s) == IF LastDot(s) <= 1 THEN <<>> ELSE SubSeq(s, LastDot(s), Len(s))

SaveExtensions == {<<".", "e", "s", "s">>, <<".", "f", "o", "s">>}

\* variant: without the .filter every entry is a candidate
IsSaveNameUnfiltered(savePath) == TRUE

\* the .filter of refreshSavegames
IsSaveName(savePath) == toLowerCase(extname(savePath)) \in SaveExtensions

\* path.join(savesPath, savegameName) and path.basename of it
joinPath(savesPath, savegameName) == [dir |-> savesPath, name |-> savegameName]
basename(filePath) == filePath.name

\* the ISavegame record built by loadSaveGame (decoded attributes are opaque)
MakeSave(filePath) == [id |-> basename(filePath), filePath |-> filePath]

(* --------------------------- sequence helpers -------------------------- *)
\* readdirAsync(...).filter(...): the entries with a recognised save extension,
\* in listing order
RECURSIVE SaveNames(_)
SaveNames(listing) ==
  IF listing = <<>> THEN <<>>
  ELSE (IF IsSaveName(Head(listing)) THEN <<Head(listing)>> ELSE <<>>)
         \o SaveNames(Tail(listing))

\* all orders in which readdir may list a set of entries
Listings(S) ==
  {l \in [1..Cardinality(S) -> S] : \A i, j \in 1..Cardinality(S) : i # j => l[i] # l[j]}

(* ------------------------------- state --------------------------------- *)
VARIABLES
  nActs,          \* number of promise chains the handler has started
  act,            \* per chain: profileId, position in the chain, savesPath
  scan,           \* per chain: the refreshSavegames/updateSaves call in flight
  watch,          \* per chain: state of the FSWatcher it created
  fsWatcher,      \* module variable fsWatcher: 0 = undefined, else the chain
                  \* whose watcher it references
  deb,            \* per chain: the util.Debouncer it created
  saves,          \* store.getState().session.saves : id -> ISavegame
  savegamePath,   \* session save path set by setSavegamePath
  ini,            \* General.SLocalSavePath of each game's ini file
  dirExists,      \* file system: which save directories exist
  files,          \* file system: entries of each save directory
  notifications,  \* the showErrorNotification calls of the latest step
  sinceEvt,       \* observer: per chain, time since the last watch event (capped)
  burst,          \* observer: per chain, events of the current burst and the
                  \* debounced runs started since it began
  prevRun,        \* observer: what the latest completed scan decoded
  heard           \* observer: the profile id of the 'profile-did-change' event
                  \* the latest step handled, TeardownEvent when the step was
                  \* the host shutting the extension down, "" after any other
                  \* step
  ,
  owed            \* observer: per chain, where the oldest watch event stands
                  \* that no merged scan has followed yet (phase), and the
                  \* parities of the numbers of scans that followed events
                  \* and merged (gen) or were rejected (rej)
  ,
  atAttach        \* observer: per chain, the save files that were in the
                  \* directory when its watch became live, less those the
                  \* decoder has failed on

vars == <<nActs, act, scan, watch, fsWatcher, deb, saves, savegamePath, ini,
          dirExists, files, notifications, sinceEvt, burst, prevRun, heard,
          owed, atAttach>>

\* the variables that only record what happened, for the properties below
observers == <<sinceEvt, burst, prevRun, heard, owed, atAttach>>

Acts == 1..MaxActs

Unset == <<>>

NoAct == [profileId |-> "", pc |-> "idle", savesPath |-> Unset]

NoScan ==
  [st |-> "none", savesPath |-> Unset, readdir |-> "pending", listing |-> <<>>,
   names |-> <<>>,
   idx |-> 0, attempt |-> 0, delay |-> -1, offered |-> <<>>, newSavegames |-> <<>>, failedReads |-> <<>>, log |-> <<>>]

NoDebouncer == [timer |-> -1, running |-> FALSE, resched |-> FALSE]

NoBurst == [events |-> 0, runs |-> 0, gap |-> -1]

NoRun == [valid |-> FALSE]

NoDebt == [phase |-> "idle", gen |-> 0, rej |-> 0]

EmptySaves == [id \in {} |-> id]

Init ==
  /\ nActs = 0
  /\ act = [i \in Acts |-> NoAct]
  /\ scan = [i \in Acts |-> NoScan]
  /\ watch = [i \in Acts |-> "none"]
  /\ fsWatcher = 0
  /\ deb = [i \in Acts |-> NoDebouncer]
  /\ saves = EmptySaves
  /\ savegamePath = Unset
  /\ ini = [g \in gameSupport |-> Unset]
  /\ dirExists = [d \in Dirs |-> FALSE]
  /\ files = [d \in Dirs |-> {}]
  /\ notifications = <<>>
  /\ sinceEvt = [i \in Acts |-> DebounceMS]
  /\ burst = [i \in Acts |-> NoBurst]
  /\ prevRun = NoRun
  /\ heard = ""
  /\ owed = [i \in Acts |-> NoDebt]
  /\ atAttach = [i \in Acts |-> {}]

(* ------------------------- session reducer ----------------------------- *)
\* clearSavegames: the Store becomes empty
ClearSavegamesReducer(state) == EmptySaves

\* setSavegames: adds the records of the payload whose id the Store lacks and
\* leaves every present record as it is
SetSavegamesReducer(state, payload) ==
  [id \in DOMAIN state \cup DOMAIN payload |->
     IF id \in DOMAIN state THEN state[id] ELSE payload[id]]

(* ---------------------------- updateSaves ------------------------------ *)
\* variant: every decoded save is pushed, known or not
OnAddSavegameAlways(newSavegames, state, save) == Append(newSavegames, save)

\* the onAddSavegame callback of updateSaves: push the save when the Store
\* does not know its id
OnAddSavegame(newSavegames, state, save) ==
  IF save.id \notin DOMAIN state THEN Append(newSavegames, save) ELSE newSavegames

\* savesDict of updateSaves: forEach(save => savesDict[save.id] = save), so a
\* later save of the same id wins
SavesDict(newSavegames) ==
  LET ids == {newSavegames[k].id : k \in 1..Len(newSavegames)}
      last(id) == CHOOSE k \in 1..Len(newSavegames) :
                    /\ newSavegames[k].id = id
                    /\ \A j \in (k+1)..Len(newSavegames) : newSavegames[j].id # id
  IN [id \in ids |-> newSavegames[last(id)]]

\* variant: the dispatch replaces the Store by the payload
DispatchSetSavegamesReplacing(state, newSavegames) == SavesDict(newSavegames)

\* store.dispatch(setSavegames(savesDict)) at the end of updateSaves
DispatchSetSavegames(state, newSavegames) ==
  SetSavegamesReducer(state, SavesDict(newSavegames))

\* variant: updateSaveSettings does not clear the Store
DispatchClearSavegamesSkipped(state) == state

\* store.dispatch(clearSavegames()) in updateSaveSettings
DispatchClearSavegames(state) == ClearSavegamesReducer(state)

(* --------------------------- util.Debouncer ---------------------------- *)
\* schedule(): while the bound action runs, remember to schedule again when it
\* is done; otherwise (re)start the quiet period
DebouncerSchedule(d) ==
  IF d.running THEN [d EXCEPT !.resched = TRUE]
  ELSE [d EXCEPT !.timer = DebounceMS]

\* the timer elapsed: the bound action starts
DebouncerRun(d) == [d EXCEPT !.timer = -1, !.running = TRUE]

\* the bound action's promise settled: schedule again if asked to meanwhile
DebouncerSettled(d) ==
  IF d.resched THEN [timer |-> DebounceMS, running |-> FALSE, resched |-> FALSE]
  ELSE [d EXCEPT !.running = FALSE]

\* variant: the callback does not schedule the Debouncer
OnWatchEventDropped(d) == d

\* variant: the event makes the bound action due at once, without a quiet period
OnWatchEventUndelayed(d) ==
  IF d.running THEN [d EXCEPT !.resched = TRUE] ELSE [d EXCEPT !.timer = 0]

\* the callback handed to fs.watch: every event calls update.schedule(undefined)
OnWatchEvent(d) == DebouncerSchedule(d)

(* ----------------------------- notifications --------------------------- *)
showErrorNotification(n, title, payload) ==
  Append(n, [title |-> title, payload |-> payload])

\* variant: one warning for every file that could not be read
NotifyFailedReadsPerFile(n, failedReads) ==
  n \o [k \in 1..Len(failedReads) |->
         [title |-> "Some saves couldn't be read", payload |-> <<failedReads[k]>>]]

\* the failed-reads warning both scan continuations issue
NotifyFailedReads(n, failedReads) ==
  IF Len(failedReads) > 0
  THEN showErrorNotification(n, "Some saves couldn't be read", failedReads)
  ELSE n

(* --------------------------- refreshSavegames -------------------------- *)
\* refreshSavegames(savesPath, ...) has issued fs.readdirAsync(savesPath)
NewScan(savesPath) ==
  [NoScan EXCEPT !.st = "readdir", !.savesPath = savesPath]

\* the listing arrived and was filtered: Promise.each starts with the first name
ScanListed(sc, listing) ==
  [sc EXCEPT !.st = "decode", !.names = SaveNames(listing), !.idx = 1, !.attempt = 1]

DecodeOutcomes == {"ok", "EBUSY", "EOTHER"}

\* loadSaveGame resolved: the save was handed to onAddSavegame (offered keeps
\* the saves the callback received), next file
ScanDecoded(sc, state) ==
  LET name == sc.names[sc.idx]
      save == MakeSave(joinPath(sc.savesPath, name))
  IN [sc EXCEPT !.newSavegames = OnAddSavegame(sc.newSavegames, state, save),
                !.offered = Append(sc.offered, save),
                !.idx = sc.idx + 1, !.attempt = 1,
                !.log = Append(sc.log, [name |-> name, outcome |-> "ok"])]

\* variant: without the second .catch a final failure rejects the whole scan
ScanDecodeFailedAborting(sc, code) ==
  LET name   == sc.names[sc.idx]
      logged == Append(sc.log, [name |-> name, outcome |-> code])
  IN IF sc.attempt = 1 /\ code = "EBUSY"
     THEN [sc EXCEPT !.st = "delay", !.delay = RetryDelayMS, !.log = logged]
     ELSE [sc EXCEPT !.st = "rejected", !.log = logged]

\* variant: the retry is not returned from the .catch, so Promise.each goes
\* on to the next file while the retry is still pending
ScanDecodeFailedNotAwaited(sc, code) ==
  LET name   == sc.names[sc.idx]
      logged == Append(sc.log, [name |-> name, outcome |-> code])
  IN IF sc.attempt = 1 /\ code = "EBUSY"
     THEN [sc EXCEPT !.idx = sc.idx + 1, !.attempt = 1, !.log = logged]
     ELSE [sc EXCEPT !.failedReads = Append(sc.failedReads, [name |-> name, message |-> code]),
                     !.idx = sc.idx + 1, !.attempt = 1, !.log = logged]

\* variant: the first attempt is retried whatever the error code
ScanDecodeFailedRetryAny(sc, code) ==
  LET name   == sc.names[sc.idx]
      logged == Append(sc.log, [name |-> name, outcome |-> code])
  IN IF sc.attempt = 1
     THEN [sc EXCEPT !.st = "delay", !.delay = RetryDelayMS, !.log = logged]
     ELSE [sc EXCEPT !.failedReads = Append(sc.failedReads, [name |-> name, message |-> code]),
                     !.idx = sc.idx + 1, !.attempt = 1, !.log = logged]

\* loadSaveGame rejected with an error of the given code: the first attempt is
\* retried after util.delayed(500) when the code is EBUSY, every other
\* rejection is pushed to failedReads and Promise.each goes on
ScanDecodeFailed(sc, code) ==
  LET name   == sc.names[sc.idx]
      logged == Append(sc.log, [name |-> name, outcome |-> code])
  IN IF sc.attempt = 1 /\ code = "EBUSY"
     THEN [sc EXCEPT !.st = "delay", !.delay = RetryDelayMS, !.log = logged]
     ELSE [sc EXCEPT !.failedReads = Append(sc.failedReads, [name |-> name, message |-> code]),
                     !.idx = sc.idx + 1, !.attempt = 1, !.log = logged]

\* the retry delay elapsed: loadSaveGame is called a second time
ScanRetry(sc) == [sc EXCEPT !.st = "decode", !.attempt = 2, !.delay = -1]

InitialScan(i) == act[i].pc = "scan"
DebouncedScan(i) == act[i].pc = "done" /\ deb[i].running

\* a scan is in flight from the readdir call until updateSaves has dispatched
ScanInFlight(i) == scan[i].st \in {"readdir", "decode", "delay"}

(* ------------------------------ actions -------------------------------- *)
\* variant: the handler does not ask whether the game is supported
HandlerAcceptsAnyGame(profileId) == profileId \in DOMAIN Profiles

\* variant: the handler does not ask whether the profile exists
HandlerAcceptsUnknown(profileId) ==
  profileId \in DOMAIN Profiles => gameSupported(Profiles[profileId].gameId)

\* the guard of the 'profile-did-change' handler
HandlerAccepts(profileId) ==
  /\ profileId \in DOMAIN Profiles
  /\ gameSupported(Profiles[profileId].gameId)

\* the head of updateSaveSettings: without a profile the returned promise is
\* rejected (ProcessCanceled), otherwise parser.read is issued
UpdateSaveSettingsStart(profileId) ==
  IF profileId \notin DOMAIN Profiles THEN "rejected" ELSE "read"

\* context.api.events.on('profile-did-change', ...): the synchronous part, up
\* to parser.read(...) inside updateSaveSettings
ProfileDidChange(profileId) ==
  /\ notifications' = <<>>
  /\ IF HandlerAccepts(profileId)
     THEN /\ nActs < MaxActs
          /\ nActs' = nActs + 1
          /\ act' = [act EXCEPT ![nActs + 1] =
                       [profileId |-> profileId,
                        pc |-> UpdateSaveSettingsStart(profileId),
                        savesPath |-> Unset]]
          /\ UNCHANGED <<scan, watch, fsWatcher, deb, saves, savegamePath, ini,
                         dirExists, files>>
     ELSE UNCHANGED <<nActs, act, scan, watch, fsWatcher, deb, saves, savegamePath,
                      ini, dirExists, files>>

\* updateSaveSettings after parser.read: rewrite the ini, set the save path,
\* clear the Store, start ensureDirAsync; or parser.read rejected
ReadIniDone(i) ==
  /\ notifications' = <<>>
  /\ act[i].pc = "read"
  /\ LET profileId == act[i].profileId
         gameId    == Profiles[profileId].gameId
     IN \/ /\ ini' = [ini EXCEPT ![gameId] = SLocalSavePath(profileId)]
           /\ savegamePath' = SLocalSavePath(profileId)
           /\ saves' = DispatchClearSavegames(saves)
           /\ act' = [act EXCEPT ![i].pc = "ensure"]
        \/ /\ act' = [act EXCEPT ![i].pc = "rejected"]
           /\ UNCHANGED <<ini, savegamePath, saves>>
  /\ UNCHANGED <<nActs, scan, watch, fsWatcher, deb, dirExists, files>>

\* ensureDirAsync settled: the directory exists and the chain calls
\* updateSaves(store, profileId, savesPath); or the chain is rejected
EnsureDirDone(i) ==
  /\ notifications' = <<>>
  /\ act[i].pc = "ensure"
  /\ LET path == readPath(act[i].profileId)
     IN \/ /\ dirExists' = [dirExists EXCEPT ![path] = TRUE]
           /\ act' = [act EXCEPT ![i].pc = "scan", ![i].savesPath = path]
           /\ scan' = [scan EXCEPT ![i] = NewScan(path)]
        \/ /\ act' = [act EXCEPT ![i].pc = "rejected"]
           /\ UNCHANGED <<dirExists, scan>>
  /\ UNCHANGED <<nActs, watch, fsWatcher, deb, saves, savegamePath, ini, files>>

\* what fs.readdirAsync(path) can settle with: the entries in some order,
\* ENOENT when the directory does not exist, or another error
ReaddirOutcomes(path) ==
  (IF dirExists[path]
   THEN {[code |-> "ok", entries |-> listing] : listing \in Listings(files[path])}
   ELSE {[code |-> "ENOENT", entries |-> <<>>]})
  \cup {[code |-> "EACCES", entries |-> <<>>]}

\* variant: every readdir error is taken for an empty directory
ReaddirCaughtAllResolve(result) ==
  IF result.code = "ok" THEN [resolved |-> TRUE, entries |-> result.entries]
  ELSE [resolved |-> TRUE, entries |-> <<>>]

\* variant: without the ENOENT case every readdir error rejects
ReaddirCaughtAllReject(result) ==
  IF result.code = "ok" THEN [resolved |-> TRUE, entries |-> result.entries]
  ELSE [resolved |-> FALSE, entries |-> <<>>]

\* the .catch behind readdirAsync: ENOENT resolves to the empty listing, every
\* other error rejects
ReaddirCaught(result) ==
  IF result.code = "ok" THEN [resolved |-> TRUE, entries |-> result.entries]
  ELSE IF result.code = "ENOENT" THEN [resolved |-> TRUE, entries |-> <<>>]
  ELSE [resolved |-> FALSE, entries |-> <<>>]

\* readdirAsync settled: the listing is filtered and Promise.each starts, or
\* refreshSavegames and with it updateSaves rejects
ReaddirDone(i) ==
  /\ notifications' = <<>>
  /\ scan[i].st = "readdir"
  /\ \E result \in ReaddirOutcomes(scan[i].savesPath) :
       LET caught == ReaddirCaught(result)
           seen   == [scan[i] EXCEPT !.readdir = result.code,
                                     !.listing = caught.entries]
       IN IF caught.resolved
          THEN /\ scan' = [scan EXCEPT ![i] = ScanListed(seen, caught.entries)]
               /\ UNCHANGED <<act, deb>>
          ELSE /\ scan' = [scan EXCEPT ![i] = [seen EXCEPT !.st = "rejected"]]
               /\ IF InitialScan(i)
                  THEN /\ act' = [act EXCEPT ![i].pc = "rejected"]
                       /\ UNCHANGED deb
                  ELSE /\ deb' = [deb EXCEPT ![i] = DebouncerSettled(deb[i])]
                       /\ UNCHANGED act
  /\ UNCHANGED <<nActs, watch, fsWatcher, saves, savegamePath, ini, dirExists,
                 files>>

\* loadSaveGame of the current file settled
DecodeDone(i, outcome) ==
  /\ notifications' = <<>>
  /\ scan[i].st = "decode"
  /\ scan[i].idx <= Len(scan[i].names)
  /\ IF outcome = "ok"
     THEN /\ dirExists[scan[i].savesPath]
          /\ scan[i].names[scan[i].idx] \in files[scan[i].savesPath]
          /\ scan' = [scan EXCEPT ![i] = ScanDecoded(scan[i], saves)]
     ELSE scan' = [scan EXCEPT ![i] = ScanDecodeFailed(scan[i], outcome)]
  /\ UNCHANGED <<nActs, act, watch, fsWatcher, deb, saves, savegamePath, ini,
                 dirExists, files>>

\* util.delayed(500) elapsed
RetryDelayDone(i) ==
  /\ notifications' = <<>>
  /\ scan[i].st = "delay"
  /\ scan[i].delay = 0
  /\ scan' = [scan EXCEPT ![i] = ScanRetry(scan[i])]
  /\ UNCHANGED <<nActs, act, watch, fsWatcher, deb, saves, savegamePath, ini,
                 dirExists, files>>

\* Promise.each is through: updateSaves builds savesDict and dispatches it
MergeScan(i) ==
  /\ notifications' = <<>>
  /\ scan[i].st = "decode"
  /\ scan[i].idx > Len(scan[i].names)
  /\ saves' = DispatchSetSavegames(saves, scan[i].newSavegames)
  /\ scan' = [scan EXCEPT ![i].st = "merged"]
  /\ UNCHANGED <<nActs, act, watch, fsWatcher, deb, savegamePath, ini,
                 dirExists, files>>

\* variant: the catch block swallows the error without telling the user
OnWatchFailedSilent(n, savesPath, message) == n

\* the catch block around fs.watch: one notification with the path and the
\* error's message
OnWatchFailed(n, savesPath, message) ==
  showErrorNotification(n, "Can't watch saves directory for changes",
                        [path |-> savesPath, error |-> message])

\* variant: the previous watcher is left open
CloseWatcherSkipped(watchers, ref) == watchers

\* if (fsWatcher !== undefined) fsWatcher.close()
CloseWatcher(watchers, ref) ==
  IF ref # 0 THEN [watchers EXCEPT ![ref] = "closed"] ELSE watchers

\* the last .then of the handler: warn about failed reads, close the watcher
\* fsWatcher refers to, create the Debouncer, call fs.watch (which may throw)
AttachWatch(i) ==
  /\ InitialScan(i)
  /\ scan[i].st = "merged"
  /\ LET warned == NotifyFailedReads(<<>>, scan[i].failedReads)
         closed == CloseWatcher(watch, fsWatcher)
     IN \/ /\ dirExists[act[i].savesPath]
           /\ watch' = [closed EXCEPT ![i] = "live"]
           /\ fsWatcher' = i
           /\ notifications' = warned
        \/ /\ watch' = closed
           /\ fsWatcher' = fsWatcher
           /\ notifications' = OnWatchFailed(warned, act[i].savesPath, "watch failed")
  /\ deb' = [deb EXCEPT ![i] = NoDebouncer]
  /\ act' = [act EXCEPT ![i].pc = "done"]
  /\ scan' = [scan EXCEPT ![i] = NoScan]
  /\ UNCHANGED <<nActs, saves, savegamePath, ini, dirExists, files>>

\* a change event of a live watcher
WatchEvent(i) ==
  /\ notifications' = <<>>
  /\ watch[i] = "live"
  /\ deb' = [deb EXCEPT ![i] = OnWatchEvent(deb[i])]
  /\ UNCHANGED <<nActs, act, scan, watch, fsWatcher, saves, savegamePath, ini,
                 dirExists, files>>

\* the debounce timer elapsed: the bound action calls updateSaves
DebouncerFire(i) ==
  /\ notifications' = <<>>
  /\ act[i].pc = "done"
  /\ deb[i].timer = 0
  /\ deb' = [deb EXCEPT ![i] = DebouncerRun(deb[i])]
  /\ scan' = [scan EXCEPT ![i] = NewScan(act[i].savesPath)]
  /\ UNCHANGED <<nActs, act, watch, fsWatcher, saves, savegamePath, ini,
                 dirExists, files>>

\* the .then of the bound action: warn about failed reads; the Debouncer
\* sees its action settled
DebouncedDone(i) ==
  /\ DebouncedScan(i)
  /\ scan[i].st = "merged"
  /\ notifications' = NotifyFailedReads(<<>>, scan[i].failedReads)
  /\ deb' = [deb EXCEPT ![i] = DebouncerSettled(deb[i])]
  /\ scan' = [scan EXCEPT ![i] = NoScan]
  /\ UNCHANGED <<nActs, act, watch, fsWatcher, saves, savegamePath, ini,
                 dirExists, files>>

\* time passes: every running timer gets closer to its expiry
Elapse(t) == IF t > TickMS THEN t - TickMS ELSE IF t > 0 THEN 0 ELSE t

Tick ==
  /\ notifications' = <<>>
  /\ deb' = [i \in Acts |-> [deb[i] EXCEPT !.timer = Elapse(@)]]
  /\ scan' = [i \in Acts |-> [scan[i] EXCEPT !.delay = Elapse(@)]]
  /\ UNCHANGED <<nActs, act, watch, fsWatcher, saves, savegamePath, ini,
                 dirExists, files>>

RECURSIVE SumOver(_, _)
SumOver(S, f) ==
  IF S = {} THEN 0
  ELSE LET x == CHOOSE y \in S : TRUE IN f[x] + SumOver(S \ {x}, f)

FileCount == SumOver(Dirs, [d \in Dirs |-> Cardinality(files[d])])

\* the game (or the user) creates a file in a save directory
CreateFile(path, name) ==
  /\ notifications' = <<>>
  /\ dirExists[path]
  /\ name \notin files[path]
  /\ FileCount < MaxFiles
  /\ files' = [files EXCEPT ![path] = @ \cup {name}]
  /\ UNCHANGED <<nActs, act, scan, watch, fsWatcher, deb, saves, savegamePath,
                 ini, dirExists>>

\* a save directory is removed
RemoveDir(path) ==
  /\ notifications' = <<>>
  /\ dirExists[path]
  /\ dirExists' = [dirExists EXCEPT ![path] = FALSE]
  /\ files' = [files EXCEPT ![path] = {}]
  /\ UNCHANGED <<nActs, act, scan, watch, fsWatcher, deb, saves, savegamePath,
                 ini>>

\* the host shuts the extension down.  init registers nothing that would run
\* then: no code of the extension is executed
Teardown ==
  /\ notifications' = <<>>
  /\ UNCHANGED <<nActs, act, scan, watch, fsWatcher, deb, saves, savegamePath,
                 ini, dirExists, files>>

(* ------------------------------ observers ------------------------------ *)
Min(a, b) == IF a < b THEN a ELSE b

\* bookkeeping of bursts: an event that arrives a full quiet period or more
\* after the previous one starts a new burst
BurstEvent(b, since) ==
  IF b.events = 0 \/ since >= DebounceMS
  THEN [events |-> 1, runs |-> 0, gap |-> -1]
  ELSE [b EXCEPT !.events = Min(b.events + 1, MaxBurst)]

BurstRun(b, since) == [b EXCEPT !.runs = Min(b.runs + 1, 2), !.gap = since]

ObserveEvent(i) ==
  /\ burst' = [burst EXCEPT ![i] = BurstEvent(burst[i], sinceEvt[i])]
  /\ sinceEvt' = [sinceEvt EXCEPT ![i] = 0]
  /\ UNCHANGED <<prevRun, heard, owed, atAttach>>

ObserveFire(i) ==
  /\ burst' = [burst EXCEPT ![i] = BurstRun(burst[i], sinceEvt[i])]
  /\ UNCHANGED <<sinceEvt, prevRun, heard, owed, atAttach>>

ObserveTick ==
  /\ sinceEvt' = [i \in Acts |-> Min(sinceEvt[i] + TickMS, DebounceMS)]
  /\ UNCHANGED <<burst, prevRun, heard, owed, atAttach>>

\* the names a scan has decoded successfully so far
OkNames(sc) == {sc.log[k].name : k \in {j \in 1..Len(sc.log) : sc.log[j].outcome = "ok"}}

ObserveMerge(i) ==
  /\ prevRun' = [valid |-> TRUE, savesPath |-> scan[i].savesPath,
                 ok |-> OkNames(scan[i]), added |-> Len(scan[i].newSavegames)]
  /\ UNCHANGED <<sinceEvt, burst, heard, owed, atAttach>>

ObserveClear ==
  /\ prevRun' = IF saves' = EmptySaves /\ saves # EmptySaves THEN NoRun ELSE prevRun
  /\ UNCHANGED <<sinceEvt, burst, heard, owed, atAttach>>

\* the step handled a 'profile-did-change' event
ObserveActivation(profileId) ==
  /\ heard' = profileId
  /\ UNCHANGED <<sinceEvt, burst, prevRun, owed, atAttach>>

TeardownEvent == "<teardown>"

\* the step was the host's teardown
ObserveTeardown ==
  /\ heard' = TeardownEvent
  /\ UNCHANGED <<sinceEvt, burst, prevRun, owed, atAttach>>

\* the step was anything else
ObserveOther ==
  /\ heard' = ""
  /\ UNCHANGED <<sinceEvt, burst, prevRun, owed, atAttach>>

\* The phases of owed[i].  "idle": a merged scan has followed every event.
\* "wait": no scan has started since the oldest event not yet followed.
\* "scan": a debounced scan that started after all such events is in flight.
\* "scanlate": as "scan", and further events arrived after it started.
\* "rejected": the scan that started after the events was rejected and no
\* event has arrived since.
OweEvent(i) ==
  /\ owed' = [owed EXCEPT ![i].phase =
                 CASE @ \in {"idle", "wait", "rejected"} -> "wait"
                   [] @ \in {"scan", "scanlate"} -> "scanlate"]
  /\ UNCHANGED <<sinceEvt, burst, prevRun, heard, atAttach>>

OweFire(i) ==
  /\ owed' = [owed EXCEPT ![i].phase = IF @ = "wait" THEN "scan" ELSE @]
  /\ UNCHANGED <<sinceEvt, burst, prevRun, heard, atAttach>>

\* the scan has merged: it has followed the events that preceded its start
OweMerge(i) ==
  /\ owed' = IF DebouncedScan(i) /\ owed[i].phase \in {"scan", "scanlate"}
             THEN [owed EXCEPT ![i] =
                     [phase |-> IF @.phase = "scan" THEN "idle" ELSE "wait",
                      gen |-> 1 - @.gen, rej |-> @.rej]]
             ELSE owed
  /\ UNCHANGED <<sinceEvt, burst, prevRun, heard, atAttach>>

OweReaddir(i) ==
  /\ owed' = IF DebouncedScan(i) /\ scan'[i].st = "rejected"
                 /\ owed[i].phase \in {"scan", "scanlate"}
             THEN [owed EXCEPT ![i].phase = IF @ = "scan" THEN "rejected" ELSE "wait",
                               ![i].rej = 1 - @]
             ELSE owed
  /\ UNCHANGED <<sinceEvt, burst, prevRun, heard, atAttach>>

\* the names of the failure entries of a scan
FailedNames(sc) == {sc.failedReads[k].name : k \in 1..Len(sc.failedReads)}

\* fs.watch succeeded: the save files of the directory at that moment, less
\* those the initial scan could not decode
SeenAttach(i) ==
  /\ atAttach' = [atAttach EXCEPT ![i] =
                     IF watch'[i] = "live"
                     THEN {n \in files[act[i].savesPath] : IsSaveName(n)}
                            \ FailedNames(scan[i])
                     ELSE @]
  /\ UNCHANGED <<sinceEvt, burst, prevRun, heard, owed>>

\* a later scan could not decode a file either
SeenDecode(i) ==
  /\ atAttach' = [atAttach EXCEPT ![i] = @ \ FailedNames(scan'[i])]
  /\ UNCHANGED <<sinceEvt, burst, prevRun, heard, owed>>

(* --------------------------- specifications ---------------------------- *)
\* Overlapping activations; the observers are idle and every save directory
\* holds at most the one entry NameEss
Next ==
  \/ \E profileId \in ProfileIds : ProfileDidChange(profileId) /\ UNCHANGED observers
  \/ \E i \in Acts : ReadIniDone(i) /\ UNCHANGED observers
  \/ \E i \in Acts : EnsureDirDone(i) /\ UNCHANGED observers
  \/ \E i \in Acts : ReaddirDone(i) /\ UNCHANGED observers
  \/ \E i \in Acts, outcome \in DecodeOutcomes : DecodeDone(i, outcome) /\ UNCHANGED observers
  \/ \E i \in Acts : RetryDelayDone(i) /\ UNCHANGED observers
  \/ \E i \in Acts : MergeScan(i) /\ UNCHANGED observers
  \/ \E i \in Acts : AttachWatch(i) /\ UNCHANGED observers
  \/ \E i \in Acts : WatchEvent(i) /\ UNCHANGED observers
  \/ \E i \in Acts : DebouncerFire(i) /\ UNCHANGED observers
  \/ \E i \in Acts : DebouncedDone(i) /\ UNCHANGED observers
  \/ Tick /\ UNCHANGED observers
  \/ \E path \in Dirs : CreateFile(path, NameEss) /\ UNCHANGED observers
  \/ \E path \in Dirs : RemoveDir(path) /\ UNCHANGED observers

Spec == Init /\ [][Next]_vars

\* One activation, any entries in its directory, with the observers running
NextSingle ==
  \/ \E profileId \in ProfileIds :
       nActs = 0 /\ ProfileDidChange(profileId) /\ UNCHANGED observers
  \/ \E i \in Acts : ReadIniDone(i) /\ ObserveClear
  \/ \E i \in Acts : EnsureDirDone(i) /\ UNCHANGED observers
  \/ \E i \in Acts : ReaddirDone(i) /\ UNCHANGED observers
  \/ \E i \in Acts, outcome \in DecodeOutcomes : DecodeDone(i, outcome) /\ UNCHANGED observers
  \/ \E i \in Acts : RetryDelayDone(i) /\ UNCHANGED observers
  \/ \E i \in Acts : MergeScan(i) /\ ObserveMerge(i)
  \/ \E i \in Acts : AttachWatch(i) /\ UNCHANGED observers
  \/ \E i \in Acts : WatchEvent(i) /\ ObserveEvent(i)
  \/ \E i \in Acts : DebouncerFire(i) /\ ObserveFire(i)
  \/ \E i \in Acts : DebouncedDone(i) /\ UNCHANGED observers
  \/ Tick /\ ObserveTick
  \/ \E path \in Dirs, name \in Names : CreateFile(path, name) /\ UNCHANGED observers
  \/ \E path \in Dirs : RemoveDir(path) /\ UNCHANGED observers

SpecSingle == Init /\ [][NextSingle]_vars

\* Overlapping activations over save directories that stay empty: the chains,
\* their watchers and their debouncers, without decodes
NextChains ==
  \/ \E profileId \in ProfileIds : ProfileDidChange(profileId) /\ UNCHANGED observers
  \/ \E i \in Acts : ReadIniDone(i) /\ UNCHANGED observers
  \/ \E i \in Acts : EnsureDirDone(i) /\ UNCHANGED observers
  \/ \E i \in Acts : ReaddirDone(i) /\ UNCHANGED observers
  \/ \E i \in Acts : MergeScan(i) /\ UNCHANGED observers
  \/ \E i \in Acts : AttachWatch(i) /\ UNCHANGED observers
  \/ \E i \in Acts : WatchEvent(i) /\ UNCHANGED observers
  \/ \E i \in Acts : DebouncerFire(i) /\ UNCHANGED observers
  \/ \E i \in Acts : DebouncedDone(i) /\ UNCHANGED observers
  \/ Tick /\ UNCHANGED observers
  \/ \E path \in Dirs : RemoveDir(path) /\ UNCHANGED observers

SpecChains == Init /\ [][NextChains]_vars

\* One accepted activation and, at any time, further 'profile-did-change'
\* events the handler does not accept and the host's teardown; any entries in
\* the directory; heard records the event of the step
NextGuard ==
  \/ \E profileId \in ProfileIds :
       /\ nActs = 0 \/ ~HandlerAccepts(profileId)
       /\ ProfileDidChange(profileId)
       /\ ObserveActivation(profileId)
  \/ \E i \in Acts : ReadIniDone(i) /\ ObserveOther
  \/ \E i \in Acts : EnsureDirDone(i) /\ ObserveOther
  \/ \E i \in Acts : ReaddirDone(i) /\ ObserveOther
  \/ \E i \in Acts, outcome \in DecodeOutcomes : DecodeDone(i, outcome) /\ ObserveOther
  \/ \E i \in Acts : RetryDelayDone(i) /\ ObserveOther
  \/ \E i \in Acts : MergeScan(i) /\ ObserveOther
  \/ \E i \in Acts : AttachWatch(i) /\ ObserveOther
  \/ \E i \in Acts : WatchEvent(i) /\ ObserveOther
  \/ \E i \in Acts : DebouncerFire(i) /\ ObserveOther
  \/ \E i \in Acts : DebouncedDone(i) /\ ObserveOther
  \/ Tick /\ ObserveOther
  \/ \E path \in Dirs, name \in Names : CreateFile(path, name) /\ ObserveOther
  \/ \E path \in Dirs : RemoveDir(path) /\ ObserveOther
  \/ Teardown /\ ObserveTeardown

SpecGuard == Init /\ [][NextGuard]_vars

\* a chain is between its start and its last continuation
ChainRunning(i) == act[i].pc \in {"read", "ensure", "scan"}

\* nothing of chain i is pending: the chain is over, its Debouncer is at rest
ChainQuiet(i) ==
  /\ ~ChainRunning(i)
  /\ deb[i].timer = -1 /\ ~deb[i].running /\ ~deb[i].resched

\* Activations one after the other: a 'profile-did-change' event arrives only
\* when everything the earlier activations started has come to rest, and no
\* watch event arrives while a chain is running; every save directory holds
\* at most the one entry NameEss
NextSequential ==
  \/ \E profileId \in ProfileIds :
       /\ \A i \in Acts : ChainQuiet(i)
       /\ ProfileDidChange(profileId) /\ UNCHANGED observers
  \/ \E i \in Acts : ReadIniDone(i) /\ UNCHANGED observers
  \/ \E i \in Acts : EnsureDirDone(i) /\ UNCHANGED observers
  \/ \E i \in Acts : ReaddirDone(i) /\ UNCHANGED observers
  \/ \E i \in Acts, outcome \in DecodeOutcomes : DecodeDone(i, outcome) /\ UNCHANGED observers
  \/ \E i \in Acts : RetryDelayDone(i) /\ UNCHANGED observers
  \/ \E i \in Acts : MergeScan(i) /\ UNCHANGED observers
  \/ \E i \in Acts : AttachWatch(i) /\ UNCHANGED observers
  \/ \E i \in Acts :
       /\ \A j \in Acts : ~ChainRunning(j)
       /\ WatchEvent(i) /\ UNCHANGED observers
  \/ \E i \in Acts : DebouncerFire(i) /\ UNCHANGED observers
  \/ \E i \in Acts : DebouncedDone(i) /\ UNCHANGED observers
  \/ Tick /\ UNCHANGED observers
  \/ \E path \in Dirs : CreateFile(path, NameEss) /\ UNCHANGED observers
  \/ \E path \in Dirs : RemoveDir(path) /\ UNCHANGED observers

SpecSequential == Init /\ [][NextSequential]_vars

\* the steps of one activation with the fate of its watch events recorded
LiveActivate(profileId) ==
  nActs = 0 /\ ProfileDidChange(profileId) /\ UNCHANGED observers
LiveReadIni(i) == ReadIniDone(i) /\ UNCHANGED observers
LiveEnsureDir(i) == EnsureDirDone(i) /\ UNCHANGED observers
LiveReaddir(i) == ReaddirDone(i) /\ OweReaddir(i)
LiveDecode(i) ==
  \E outcome \in DecodeOutcomes : DecodeDone(i, outcome) /\ SeenDecode(i)
LiveRetry(i) == RetryDelayDone(i) /\ UNCHANGED observers
LiveMerge(i) == MergeScan(i) /\ OweMerge(i)
LiveAttach(i) == AttachWatch(i) /\ SeenAttach(i)
LiveEvent(i) == WatchEvent(i) /\ OweEvent(i)
LiveFire(i) == DebouncerFire(i) /\ OweFire(i)
LiveDebounced(i) == DebouncedDone(i) /\ UNCHANGED observers
LiveTick == Tick /\ UNCHANGED observers

\* One activation and no further one; every save directory holds at most the
\* one entry NameEss
NextLive ==
  \/ \E profileId \in ProfileIds : LiveActivate(profileId)
  \/ \E i \in Acts : LiveReadIni(i)
  \/ \E i \in Acts : LiveEnsureDir(i)
  \/ \E i \in Acts : LiveReaddir(i)
  \/ \E i \in Acts : LiveDecode(i)
  \/ \E i \in Acts : LiveRetry(i)
  \/ \E i \in Acts : LiveMerge(i)
  \/ \E i \in Acts : LiveAttach(i)
  \/ \E i \in Acts : LiveEvent(i)
  \/ \E i \in Acts : LiveFire(i)
  \/ \E i \in Acts : LiveDebounced(i)
  \/ LiveTick
  \/ \E path \in Dirs : CreateFile(path, NameEss) /\ UNCHANGED observers
  \/ \E path \in Dirs : RemoveDir(path) /\ UNCHANGED observers

\* the event loop runs every continuation whose promise has settled, file
\* system calls and decodes settle, time passes and due timers fire
Fairness ==
  /\ \A i \in Acts :
       /\ WF_vars(LiveReadIni(i)) /\ WF_vars(LiveEnsureDir(i))
       /\ WF_vars(LiveReaddir(i)) /\ WF_vars(LiveDecode(i))
       /\ WF_vars(LiveRetry(i)) /\ WF_vars(LiveMerge(i))
       /\ WF_vars(LiveAttach(i)) /\ WF_vars(LiveFire(i))
       /\ WF_vars(LiveDebounced(i))
  /\ WF_vars(LiveTick)

SpecLive == Init /\ [][NextLive]_vars /\ Fairness

(* ------------------------------ properties ----------------------------- *)
\* the chain of the most recent accepted activation
Latest == nActs

\* that chain has rewritten the ini and cleared the Store
LatestHasReset == nActs > 0 /\ act[Latest].pc \in {"ensure", "scan", "done"}

IsPrefix(a, b) == Len(a) <= Len(b) /\ SubSeq(b, 1, Len(a)) = a

\* a file path lies inside a directory
Inside(filePath, dir) == IsPrefix(dir, filePath.dir)

LiveWatches == {i \in Acts : watch[i] = "live"}

\* C1: once the Store has been reset for the most recently activated profile,
\* every record of the Store has its filePath inside that profile's effective
\* save directory, whatever earlier activations, scans and debounce timers
\* are still in flight.
C1_StaleResultsDiscarded ==
  LatestHasReset =>
    \A id \in DOMAIN saves : Inside(saves[id].filePath, readPath(act[Latest].profileId))

\* C2: at most one file system watch is live, and it is the one the module
\* variable fsWatcher refers to: whenever a watch is attached, the one that
\* was live before has been closed.
C2_AtMostOneLiveWatch ==
  /\ Cardinality(LiveWatches) <= 1
  /\ \A i \in LiveWatches : fsWatcher = i

\* C2 witness: a second watch was attached while an earlier one existed; the
\* earlier one is closed and the new one is live
C2_Witness ==
  \E i, j \in Acts : watch[i] = "closed" /\ watch[j] = "live" /\ fsWatcher = j

\* C3: while an activation is between its configuration rewrite and its watch
\* attach, no watch created for a different profile is live (the old watch
\* was torn down first).
C3_OldWatchClosedFirst ==
  \A i \in Acts : act[i].pc \in {"ensure", "scan"} =>
    \A j \in LiveWatches : act[j].profileId = act[i].profileId

DebouncerIdle(i) == deb[i].timer = -1 /\ ~deb[i].running /\ ~deb[i].resched

\* C4: the change events of one burst (each less than the quiet period after
\* the previous one) start exactly one re-scan: never more than one, one once
\* the debouncer has come to rest, and it starts no sooner than the quiet
\* period after the last event of the burst.
C4_DebounceCoalescing ==
  \A i \in Acts :
    /\ burst[i].runs <= 1
    /\ burst[i].runs = 1 => burst[i].gap >= DebounceMS
    /\ (burst[i].events >= 1 /\ DebouncerIdle(i)) => burst[i].runs = 1

\* C4 witness: a burst of several events was answered by one run, which is over
C4_Witness ==
  \E i \in Acts :
    /\ burst[i].events >= 2
    /\ burst[i].runs = 1
    /\ burst[i].gap >= DebounceMS
    /\ DebouncerIdle(i)

\* C5: a debounced trigger starts its scan only when no scan (initial or
\* debounced, of any chain) is in flight.
C5_ScansMutuallyExclusive ==
  [][\A i \in Acts : DebouncerFire(i) => \A j \in Acts : ~ScanInFlight(j)]_vars

\* the scans that have their listing
Listed == {i \in Acts : scan[i].st \in {"decode", "delay", "merged"}}

\* the decoder calls a scan made for one name, and their outcomes
CallsOf(sc, name) == SelectSeq(sc.log, LAMBDA e : e.name = name)
OutcomesOf(sc, name) == [k \in 1..Len(CallsOf(sc, name)) |-> CallsOf(sc, name)[k].outcome]

\* the failure-list entries of a scan that name a file
FailuresOf(sc, name) == SelectSeq(sc.failedReads, LAMBDA e : e.name = name)

\* the names Promise.each is through with
Processed(sc) == SubSeq(sc.names, 1, Min(sc.idx - 1, Len(sc.names)))

DecodedOk(sc, name) ==
  \E k \in 1..Len(sc.log) : sc.log[k].name = name /\ sc.log[k].outcome = "ok"

\* the save decoded from a file was handed to onAddSavegame, with the file's
\* base name as id
HasRecord(sc, name) ==
  \E k \in 1..Len(sc.offered) :
    /\ sc.offered[k].id = name
    /\ sc.offered[k].filePath = joinPath(sc.savesPath, name)
    /\ basename(sc.offered[k].filePath) = sc.offered[k].id

\* C6: retry policy of refreshSavegames.  The decoder is called a second time
\* for a file only after a first EBUSY failure and never a third time; busy
\* then ok gives a record and no failure entry; busy twice gives exactly one
\* failure entry; any other first failure is not retried and gives exactly
\* one failure entry.
C6_RetryPolicy ==
  \A i \in Listed :
    \A k \in 1..Len(scan[i].names) :
      LET name == scan[i].names[k]
          o    == OutcomesOf(scan[i], name)
          f    == Len(FailuresOf(scan[i], name))
      IN /\ Len(o) <= 2
         /\ Len(o) = 2 => o[1] = "EBUSY"
         /\ IF k < scan[i].idx
            THEN /\ Len(o) >= 1
                 /\ o[1] = "EBUSY" => Len(o) = 2
                 /\ o[1] = "EOTHER" => (Len(o) = 1 /\ f = 1)
                 /\ o = <<"EBUSY", "ok">> => (f = 0 /\ HasRecord(scan[i], name))
                 /\ o = <<"EBUSY", "EBUSY">> => f = 1
            ELSE f = 0

\* C6 witness: one scan saw a file busy and then readable, and another file
\* busy on both attempts
C6_Witness ==
  \E i \in Listed :
    \E a, b \in 1..Len(scan[i].names) :
      /\ a < scan[i].idx /\ b < scan[i].idx
      /\ OutcomesOf(scan[i], scan[i].names[a]) = <<"EBUSY", "ok">>
      /\ OutcomesOf(scan[i], scan[i].names[b]) = <<"EBUSY", "EBUSY">>
      /\ Len(scan[i].failedReads) = 1

\* C7: a bad save never aborts the scan.  Every candidate file Promise.each is
\* through with is accounted for exactly once, as a decoded record with the
\* file's base name as id and no failure entry, or as one failure entry; the
\* failure entries are in listing order; a scan that has its listing is never
\* rejected and is through with every candidate when it merges.
C7_EveryFileAccountedFor ==
  /\ \A i \in Listed :
       LET sc == scan[i]
       IN /\ \A k \in 1..Len(Processed(sc)) :
               LET name == sc.names[k]
               IN IF DecodedOk(sc, name)
                  THEN Len(FailuresOf(sc, name)) = 0 /\ HasRecord(sc, name)
                  ELSE Len(FailuresOf(sc, name)) = 1
          /\ [k \in 1..Len(sc.failedReads) |-> sc.failedReads[k].name]
               = SelectSeq(Processed(sc), LAMBDA name : ~DecodedOk(sc, name))
          /\ sc.st = "merged" => Len(Processed(sc)) = Len(sc.names)
  /\ \A i \in Acts : scan[i].st = "rejected" => scan[i].log = <<>> /\ scan[i].names = <<>>

\* C7 witness: a merged scan of two candidates whose first file failed and
\* whose second file was decoded
C7_Witness ==
  \E i \in Acts :
    /\ scan[i].st = "merged"
    /\ Len(scan[i].names) = 2
    /\ ~DecodedOk(scan[i], scan[i].names[1])
    /\ DecodedOk(scan[i], scan[i].names[2])
    /\ Len(scan[i].failedReads) = 1

\* C8: scan idempotence.  A scan that starts after the previous scan of the
\* same directory has merged, with no Store reset in between, and that decodes
\* no file the previous scan did not decode, collects no new record.
C8_SecondScanAddsNothing ==
  \A i \in Acts :
    ( /\ scan[i].st \in {"decode", "delay"}
      /\ prevRun.valid
      /\ prevRun.savesPath = scan[i].savesPath
      /\ OkNames(scan[i]) \subseteq prevRun.ok )
    => scan[i].newSavegames = <<>>

\* C8 witness: the previous scan added records, and the next scan of the same
\* directory has decoded files again and is about to merge nothing
C8_Witness ==
  \E i \in Acts :
    /\ scan[i].st = "decode" /\ scan[i].idx > Len(scan[i].names)
    /\ prevRun.valid /\ prevRun.savesPath = scan[i].savesPath
    /\ prevRun.added > 0
    /\ OkNames(scan[i]) # {} /\ OkNames(scan[i]) \subseteq prevRun.ok
    /\ scan[i].newSavegames = <<>>

\* every record of the Store is still there, unaltered, after the step
RecordsKept == \A id \in DOMAIN saves : id \in DOMAIN saves' /\ saves'[id] = saves[id]

\* C9: ids are unique in the Store (every record is stored under its own id)
\* and between two resets the Store only grows: every step keeps every record
\* unaltered, except the clearSavegames of a profile activation.
C9_StoreOnlyGrows ==
  /\ [](\A id \in DOMAIN saves : saves[id].id = id)
  /\ [][RecordsKept \/ (saves' = EmptySaves /\ \E i \in Acts : ReadIniDone(i))]_vars

\* C9 witness: a scan has merged an empty new-record set into a Store that
\* holds records
C9_Witness ==
  \E i \in Acts :
    /\ scan[i].st = "merged"
    /\ scan[i].newSavegames = <<>>
    /\ saves # EmptySaves

\* C10: a listing that fails with ENOENT resolves: the scan is not rejected,
\* the decoder is never called, no save is offered, the failure list and the
\* new-record set stay empty.
C10_MissingDirectoryIsEmpty ==
  \A i \in Acts : scan[i].readdir = "ENOENT" =>
    /\ scan[i].st \in {"decode", "merged"}
    /\ scan[i].names = <<>>
    /\ scan[i].log = <<>>
    /\ scan[i].failedReads = <<>>
    /\ scan[i].offered = <<>>
    /\ scan[i].newSavegames = <<>>

\* C10 witness: a scan of a missing directory has merged
C10_Witness ==
  \E i \in Acts : scan[i].readdir = "ENOENT" /\ scan[i].st = "merged"

\* a name ends, whatever the case of its letters, in the given extension and
\* has at least one character before it
EndsWithFold(name, ext) ==
  /\ Len(name) > Len(ext)
  /\ \A k \in 1..Len(ext) : LowerChar(name[Len(name) - Len(ext) + k]) = ext[k]

HasSaveExtension(name) ==
  \/ EndsWithFold(name, <<".", "e", "s", "s">>)
  \/ EndsWithFold(name, <<".", "f", "o", "s">>)

\* C11: extension filter.  The candidates of a scan are exactly the listed
\* entries whose extension is .ess or .fos in any case, in listing order; the
\* decoder is called for, a save is offered for and a failure is recorded for
\* such entries only; a listing without such an entry gives no decoder call,
\* an empty new-record set and an empty failure list.
C11_ExtensionFilter ==
  \A i \in Acts :
    LET sc == scan[i]
    IN /\ sc.names = SelectSeq(sc.listing, HasSaveExtension)
       /\ \A k \in 1..Len(sc.log) : HasSaveExtension(sc.log[k].name)
       /\ \A k \in 1..Len(sc.offered) : HasSaveExtension(sc.offered[k].id)
       /\ \A k \in 1..Len(sc.newSavegames) : HasSaveExtension(sc.newSavegames[k].id)
       /\ \A k \in 1..Len(sc.failedReads) : HasSaveExtension(sc.failedReads[k].name)
       /\ (\A k \in 1..Len(sc.listing) : ~HasSaveExtension(sc.listing[k]))
            => (sc.log = <<>> /\ sc.newSavegames = <<>> /\ sc.failedReads = <<>>)

\* C11 witness: a scan that listed a text file and a dot file, neither with a
\* save extension, has merged without a candidate, a record or a failure
C11_Witness ==
  \E i \in Acts :
    /\ scan[i].st = "merged"
    /\ Len(scan[i].listing) = 2
    /\ scan[i].names = <<>>
    /\ scan[i].newSavegames = <<>> /\ scan[i].failedReads = <<>>

\* the watch-failure warnings among the notifications of a step
WatchWarnings(n) ==
  SelectSeq(n, LAMBDA e : e.title = "Can't watch saves directory for changes")

\* the step is the last continuation of chain i with fs.watch throwing
AttachFailed(i) == AttachWatch(i) /\ watch'[i] # "live"

\* C12: a watch-attach failure is not fatal.  When fs.watch throws, the chain
\* still ends normally, exactly one warning with the target path and the
\* error's message is issued, and no watch is live afterwards; a watch becomes
\* live again only through the attach of a later activation.
C12_WatchFailureNonFatal ==
  [][ /\ \A i \in Acts : AttachFailed(i) =>
           /\ act'[i].pc = "done"
           /\ LiveWatches' = {}
           /\ WatchWarnings(notifications')
                = <<[title |-> "Can't watch saves directory for changes",
                     payload |-> [path |-> readPath(act[i].profileId),
                                  error |-> "watch failed"]]>>
      /\ \A j \in Acts : (watch[j] # "live" /\ watch'[j] = "live") =>
           (AttachWatch(j) /\ ~AttachFailed(j)) ]_vars

\* C12 witness: the attach of a later activation has just failed (its warning
\* is the step's notification); the watch of the earlier activation is closed
\* and no watch is live
C12_Witness ==
  \E i, j \in Acts :
    /\ watch[i] = "closed"
    /\ act[j].pc = "done" /\ watch[j] = "none"
    /\ LiveWatches = {}
    /\ Len(WatchWarnings(notifications)) = 1
    /\ notifications[1].payload.path = act[j].savesPath

\* the step left everything the extension owns or writes as it was and
\* issued no notification
Untouched ==
  /\ UNCHANGED <<nActs, act, scan, watch, fsWatcher, deb, saves, savegamePath,
                 ini, dirExists, files>>
  /\ notifications' = <<>>

UnsupportedProfiles == {p \in DOMAIN Profiles : Profiles[p].gameId \notin gameSupport}

\* C13: unsupported games never leave Idle.  A 'profile-did-change' event for
\* a profile whose game is not in the support table changes nothing (no ini
\* rewrite, no dispatch, no scan, no watcher) and no chain ever runs for such
\* a profile.
C13_UnsupportedStaysIdle ==
  /\ [](\A i \in Acts : act[i].pc # "idle" => act[i].profileId \notin UnsupportedProfiles)
  /\ [][heard' \in UnsupportedProfiles => Untouched]_vars

\* C13 witness: the event for the unsupported profile was just handled while
\* the save path is set, the Store holds a record and a watch is live
C13_Witness ==
  /\ heard = "p3"
  /\ savegamePath # Unset
  /\ saves # EmptySaves
  /\ LiveWatches # {}

\* C14: a 'profile-did-change' event naming a profile id that is not among
\* the persisted profiles changes nothing (ini, save path, Store, watcher),
\* starts no chain and issues no notification.
C14_UnknownProfileIgnored ==
  /\ [](\A i \in Acts : act[i].pc # "idle" => act[i].profileId \in DOMAIN Profiles)
  /\ [][heard' \in (ProfileIds \ DOMAIN Profiles) => Untouched]_vars

\* C14 witness: the event for the unknown profile id was just handled while
\* the initial scan of an accepted activation is decoding
C14_Witness ==
  /\ heard = "px"
  /\ \E i \in Acts : act[i].pc = "scan" /\ scan[i].st = "decode"
                      /\ scan[i].names # <<>> /\ ini[Profiles[act[i].profileId].gameId] # Unset

\* C15: plugin teardown closes the active watch: right after the teardown, in
\* whatever state it came, no watch is live.
C15_TeardownClosesWatch == heard = TeardownEvent => LiveWatches = {}

\* the Store that holds exactly the records of the files a scan decoded
StoreOf(sc) == [id \in OkNames(sc) |-> MakeSave(joinPath(sc.savesPath, id))]

\* C16: activation ordering.  The initial scan of a chain starts on a cleared
\* Store; the watch and the Debouncer of a chain exist only once its initial
\* scan has merged and the chain is over; and when nothing else interleaves,
\* the Store right after the initial merge holds exactly the records of the
\* files that scan decoded in the new effective directory, nothing else.
C16_ActivationOrdering ==
  /\ [](\A i \in Acts :
          /\ act[i].pc \in {"idle", "read", "ensure", "rejected"}
               => (scan[i].st \in {"none", "rejected"} /\ watch[i] = "none")
          /\ act[i].pc = "scan" => (watch[i] = "none" /\ deb[i] = NoDebouncer)
          /\ (act[i].pc = "scan" /\ scan[i].st = "merged")
               => (saves = StoreOf(scan[i]) /\ scan[i].savesPath = readPath(act[i].profileId)))
  /\ [][\A i \in Acts : (act[i].pc = "ensure" /\ act'[i].pc = "scan")
                           => (saves = EmptySaves /\ scan'[i].st = "readdir")]_vars

\* C16 witness: after an activation of p1, whose directory holds a.ess, an
\* activation of p2 has merged its initial scan: the Store holds the a.ess of
\* p2's directory
C16_Witness ==
  \E i, j \in Acts :
    /\ act[i].profileId = "p1" /\ act[i].pc = "done"
    /\ NameEss \in files[readPath("p1")]
    /\ act[j].profileId = "p2" /\ act[j].pc = "scan" /\ scan[j].st = "merged"
    /\ NameEss \in DOMAIN saves
    /\ saves[NameEss].filePath = joinPath(readPath("p2"), NameEss)

\* the position of a candidate in the filtered listing
PosOf(sc, name) == CHOOSE k \in 1..Len(sc.names) : sc.names[k] = name

\* a candidate is settled: it gave a record or has its failure entry
Settled(sc, name) == DecodedOk(sc, name) \/ Len(FailuresOf(sc, name)) >= 1

\* C17: within one scan the candidates are decoded strictly one after the
\* other.  The decoder calls follow the listing order; every candidate before
\* the current one is settled (record or failure entry) and has no attempt
\* left; no candidate after the current one has been touched; so the only
\* decode that can be in flight, the retry after the backoff included, is
\* that of the current candidate.
C17_SequentialDecode ==
  \A i \in Listed :
    LET sc == scan[i]
    IN /\ \A a, b \in 1..Len(sc.log) :
            a < b => PosOf(sc, sc.log[a].name) <= PosOf(sc, sc.log[b].name)
       /\ \A k \in 1..Len(sc.names) :
            /\ k < sc.idx => Settled(sc, sc.names[k])
            /\ k > sc.idx => CallsOf(sc, sc.names[k]) = <<>>
            /\ k >= sc.idx => ~Settled(sc, sc.names[k])
       /\ sc.st = "delay" =>
            (sc.idx <= Len(sc.names) /\ ~Settled(sc, sc.names[sc.idx]))

\* C17 witness: the second of two candidates is in its retry after the
\* backoff, the first one is settled
C17_Witness ==
  \E i \in Listed :
    /\ Len(scan[i].names) = 2
    /\ scan[i].st = "decode" /\ scan[i].idx = 2 /\ scan[i].attempt = 2
    /\ Settled(scan[i], scan[i].names[1])
    /\ OutcomesOf(scan[i], scan[i].names[2]) = <<"EBUSY">>

\* C18: a directory-listing error other than not-found aborts the scan and
\* propagates.  The scan is rejected and with it the chain or the Debouncer's
\* action; no file is decoded, no save is offered, no failure list and no
\* new-record set is produced; the rejecting step leaves the Store as it is
\* and a rejected scan is never merged.
C18_ListingErrorPropagates ==
  /\ [](\A i \in Acts : scan[i].readdir \notin {"pending", "ok", "ENOENT"} =>
          /\ scan[i].st = "rejected"
          /\ act[i].pc \in {"rejected", "done"}
          /\ scan[i].names = <<>> /\ scan[i].log = <<>> /\ scan[i].offered = <<>>
          /\ scan[i].failedReads = <<>> /\ scan[i].newSavegames = <<>>)
  /\ [][\A i \in Acts :
          /\ (scan[i].st = "readdir" /\ scan'[i].st = "rejected") => saves' = saves
          /\ scan[i].st = "rejected" => scan'[i].st \in {"rejected", "readdir"}]_vars

\* C18 witness: the listing of a debounced scan failed with EACCES while the
\* Store holds records
C18_Witness ==
  \E i \in Acts :
    /\ act[i].pc = "done"
    /\ scan[i].readdir = "EACCES" /\ scan[i].st = "rejected"
    /\ saves # EmptySaves

\* the failed-reads warnings among the notifications of a step
FailWarnings(n) == SelectSeq(n, LAMBDA e : e.title = "Some saves couldn't be read")

\* the step is the continuation that follows the merged scan of chain i
ScanCompletes(i) == scan[i].st = "merged" /\ scan'[i].st # "merged"

\* C19: decode failures are surfaced in aggregate.  The continuation of every
\* completed scan, initial or debounced, issues exactly one warning that
\* lists all failures of that scan when there are any and none when there
\* are none; no other step issues such a warning.
C19_FailuresSurfacedOnce ==
  [][ /\ \A i \in Acts : ScanCompletes(i) =>
           FailWarnings(notifications')
             = IF scan[i].failedReads = <<>> THEN <<>>
               ELSE <<[title |-> "Some saves couldn't be read",
                       payload |-> scan[i].failedReads]>>
      /\ (\A i \in Acts : ~ScanCompletes(i)) => FailWarnings(notifications') = <<>> ]_vars

\* C19 witness: the continuation of a debounced scan has just issued one
\* warning that lists two failures
C19_Witness ==
  /\ Len(FailWarnings(notifications)) = 1
  /\ Len(notifications) = 1
  /\ Len(notifications[1].payload) = 2
  /\ \E i \in Acts : act[i].pc = "done" /\ watch[i] = "live" /\ scan[i] = NoScan
                      /\ burst[i].runs = 1

\* an event of chain i's watch is not yet followed by a merged scan that
\* started after it, and gen merges (mod 2) have followed events so far
Unserved(i, gen) == owed[i].phase # "idle" /\ owed[i].gen = gen

\* C20, as claimed: every change event a live watch delivers is eventually
\* followed by a scan that started after it and has merged.
C20_EveryEventScanned ==
  \A i \in Acts : \A gen \in {0, 1} :
    Unserved(i, gen) ~> (owed[i].gen # gen)

\* an event of chain i's watch still waits for the scan that follows it
Waiting(i, gen, rej) ==
  /\ owed[i].phase \in {"wait", "scan", "scanlate"}
  /\ owed[i].gen = gen /\ owed[i].rej = rej

\* C20, amended: unless change events keep arriving for ever, every change
\* event is eventually followed by a scan that started after it and that has
\* merged or, its directory listing having failed, was rejected.
C20_EventScannedOnceEventsStop ==
  \A i \in Acts : \A gen, rej \in {0, 1} :
    \/ []<><<LiveEvent(i)>>_vars
    \/ Waiting(i, gen, rej) ~> (owed[i].gen # gen \/ owed[i].rej # rej)

\* C20 witness: the scan that started after the events has merged the record
\* of a file into the Store, and no event is left unserved
C20_Witness ==
  \E i \in Acts :
    /\ owed[i] = [phase |-> "idle", gen |-> 1, rej |-> 0]
    /\ DebouncedScan(i) /\ scan[i].st = "merged"
    /\ Len(scan[i].newSavegames) = 1
    /\ NameEss \in DOMAIN saves

\* nothing of chain i is in progress or pending while its watch is live
Quiescent(i) ==
  /\ act[i].pc = "done" /\ watch[i] = "live"
  /\ DebouncerIdle(i)
  /\ scan[i].st \in {"none", "rejected"}

\* C21: no change is lost between the initial scan and the watch attach.
\* Once the system is quiescent, every save file that was in the effective
\* directory when the watch became live, and that the decoder has not failed
\* on, has its record in the Store.
C21_NoChangeLost ==
  \A i \in Acts : Quiescent(i) =>
    \A n \in atAttach[i] :
      /\ n \in DOMAIN saves
      /\ saves[n].filePath = joinPath(act[i].savesPath, n)

====
